---- MODULE Spec2Model ----
(***************************************************************************)
(* Model of the interaction-model message definitions AttributeStatusIB    *)
(* and WriteResponseMessage (src/app/MessageDef): the schema check and the *)
(* field accessors of their Parsers, and the sticky-error Builders.        *)
(*                                                                         *)
(* A TLV container is a sequence of elements; a reader is a position in    *)
(* it (0 = on the container, before its first element).                    *)
(***************************************************************************)
EXTENDS Integers, Sequences, FiniteSets, TLC

VARIABLES
    msg,        \* the elements of the container the Parser is bound to
    truncated,  \* TRUE when the encoding is cut short after the last element
    mReader,    \* Parser::mReader, the parser's own cursor
    reader,     \* the working reader of the last CheckSchemaValidity
    lastOp,     \* the parser operation that ran last
    lastErr,    \* the CHIP_ERROR it returned
    out,        \* the output parser handed to the last accessor call
    bType,      \* which Builder is under construction
    mError,     \* Builder::mError
    open,       \* TRUE while the builder's own container is open in the writer
    nested,     \* the nested builders mPath / mErrorStatus / mWriteResponses
    written,    \* what went through the TLVWriter, in order
    space,      \* room left in the writer's buffer, in elements
    bOp,        \* the builder operation that ran last
    bErrAtCall, \* mError as that operation found it
    mc,         \* the MessagingContext test fixture and its collaborators
    ws,         \* a WatchableSocket and what the socket-event system knows of it
    sh          \* one call of the shell's ControllerHandler

parserVars == <<msg, truncated, mReader, reader, lastOp, lastErr, out>>
builderVars == <<bType, mError, open, nested, written, space, bOp, bErrAtCall>>
restVars == <<mc, ws, sh>>
vars == <<msg, truncated, mReader, reader, lastOp, lastErr, out,
          bType, mError, open, nested, written, space, bOp, bErrAtCall,
          mc, ws, sh>>

(***************************************************************************)
(* Bounds                                                                  *)
(***************************************************************************)
MaxElems == 3
MaxSpace == 6
MaxCodecSpace == 8
MaxValue == 2

(***************************************************************************)
(* Error codes and tags                                                    *)
(***************************************************************************)
CHIP_NO_ERROR == "CHIP_NO_ERROR"
CHIP_END_OF_TLV == "CHIP_END_OF_TLV"
CHIP_ERROR_TLV_UNDERRUN == "CHIP_ERROR_TLV_UNDERRUN"
CHIP_ERROR_INVALID_TLV_TAG == "CHIP_ERROR_INVALID_TLV_TAG"
CHIP_ERROR_WRONG_TLV_TYPE == "CHIP_ERROR_WRONG_TLV_TYPE"
CHIP_ERROR_UNEXPECTED_TLV_ELEMENT == "CHIP_ERROR_UNEXPECTED_TLV_ELEMENT"
CHIP_ERROR_TLV_TAG_NOT_FOUND == "CHIP_ERROR_TLV_TAG_NOT_FOUND"
CHIP_ERROR_IM_MALFORMED_WRITE_RESPONSE_MESSAGE == "CHIP_ERROR_IM_MALFORMED_WRITE_RESPONSE_MESSAGE"
CHIP_ERROR_IM_MALFORMED_ATTRIBUTE_STATUS_IB == "CHIP_ERROR_IM_MALFORMED_ATTRIBUTE_STATUS_IB"
CHIP_ERROR_BUFFER_TOO_SMALL == "CHIP_ERROR_BUFFER_TOO_SMALL"
CHIP_ERROR_NO_MEMORY == "CHIP_ERROR_NO_MEMORY"
CHIP_ERROR_INCORRECT_STATE == "CHIP_ERROR_INCORRECT_STATE"

kPath == 0
kErrorStatus == 1
kWriteResponses == 0
UnknownTagNum == 2
kInteractionModelRevisionTag == 255

kTLVType_Structure == "Structure"
kTLVType_Array == "Array"
kTLVType_List == "List"
kTLVType_UnsignedInteger == "UnsignedInteger"

(***************************************************************************)
(* Elements.  ctx: the tag is a context tag; num: its tag number; type:    *)
(* the TLV type; chk: the verdict of the nested schema check of the        *)
(* element's content.                                                      *)
(***************************************************************************)
Elem(c, n, t, k) == [ctx |-> c, num |-> n, type |-> t, chk |-> k]

Elements ==
    {Elem(TRUE, kPath, t, k) :
        t \in {kTLVType_List, kTLVType_Array},
        k \in {CHIP_NO_ERROR, CHIP_ERROR_UNEXPECTED_TLV_ELEMENT}}
    \cup {Elem(TRUE, kErrorStatus, kTLVType_Structure, k) :
        k \in {CHIP_NO_ERROR, CHIP_ERROR_UNEXPECTED_TLV_ELEMENT}}
    \cup {Elem(TRUE, n, kTLVType_UnsignedInteger, CHIP_NO_ERROR) :
        n \in {kPath, kErrorStatus, UnknownTagNum, kInteractionModelRevisionTag}}
    \cup {Elem(TRUE, kInteractionModelRevisionTag, kTLVType_Structure, CHIP_NO_ERROR)}
    \cup {Elem(FALSE, n, kTLVType_List, CHIP_NO_ERROR) : n \in {kPath, UnknownTagNum}}

Messages == UNION {[1..n -> Elements] : n \in 0..MaxElems}

(***************************************************************************)
(* TLV reader primitives                                                   *)
(***************************************************************************)
\* TLVReader::Next from position pos: the error and the new position.
Next_(m, tr, pos) ==
    IF pos < Len(m) THEN [err |-> CHIP_NO_ERROR, pos |-> pos + 1]
    ELSE IF tr THEN [err |-> CHIP_ERROR_TLV_UNDERRUN, pos |-> pos]
    ELSE [err |-> CHIP_END_OF_TLV, pos |-> pos]

\* A reader: its position and whether it has left the container.
Reader(p, x) == [pos |-> p, exited |-> x]

\* TLVReader::ExitContainer: skips to the end of the container and leaves it.
ExitContainer(m, rd) == [err |-> CHIP_NO_ERROR, reader |-> Reader(Len(m), TRUE)]

\* TLV::IsContextTag(reader.GetTag())
IsContextTag(e) == e.ctx

\* TLV::TagNumFromTag(reader.GetTag())
TagNumFromTag(e) == e.num

\* (mask & (1 << bit)) != 0
TestBit(mask, bit) == (mask \div (2 ^ bit)) % 2 = 1

\* mask | (1 << bit)
SetBit(mask, bit) == IF TestBit(mask, bit) THEN mask ELSE mask + 2 ^ bit

\* Nested Parser::Init(reader): fails unless the element has the expected
\* container type.
NestedInit(e, type) ==
    IF e.type = type THEN CHIP_NO_ERROR ELSE CHIP_ERROR_WRONG_TLV_TYPE

\* The nested parser's own CheckSchemaValidity on the element's content.
NestedCheckSchemaValidity(e) == e.chk

\* MessageParser::CheckInteractionModelRevision(reader): reads an unsigned
\* integer.
CheckInteractionModelRevision(e) ==
    IF e.type = kTLVType_UnsignedInteger THEN CHIP_NO_ERROR ELSE CHIP_ERROR_WRONG_TLV_TYPE

\* What a CheckSchemaValidity leaves behind: ret is TRUE when the function
\* returned from inside the loop.
Outcome(r, e, p, k) == [ret |-> r, err |-> e, pos |-> p, mask |-> k]

(***************************************************************************)
(* AttributeStatusIB::Parser::CheckSchemaValidity                          *)
(***************************************************************************)
\* ASIB_Element without the check that ErrorStatus has appeared before
ASIB_Element_NoDupCheck(e, mask) ==
    IF ~IsContextTag(e) THEN [err |-> CHIP_ERROR_INVALID_TLV_TAG, mask |-> mask]
    ELSE IF TagNumFromTag(e) = kPath THEN
        IF TestBit(mask, kPath) THEN [err |-> CHIP_ERROR_INVALID_TLV_TAG, mask |-> mask]
        ELSE IF NestedInit(e, kTLVType_List) # CHIP_NO_ERROR
            THEN [err |-> NestedInit(e, kTLVType_List), mask |-> SetBit(mask, kPath)]
        ELSE [err |-> NestedCheckSchemaValidity(e), mask |-> SetBit(mask, kPath)]
    ELSE IF TagNumFromTag(e) = kErrorStatus THEN
        IF NestedInit(e, kTLVType_Structure) # CHIP_NO_ERROR
            THEN [err |-> NestedInit(e, kTLVType_Structure), mask |-> SetBit(mask, kErrorStatus)]
        ELSE [err |-> NestedCheckSchemaValidity(e), mask |-> SetBit(mask, kErrorStatus)]
    ELSE [err |-> CHIP_NO_ERROR, mask |-> mask]

\* The loop body for one element: the error that makes the function return
\* from inside the loop (CHIP_NO_ERROR to go on) and the new presence mask.
ASIB_Element(e, mask) ==
    IF ~IsContextTag(e) THEN [err |-> CHIP_ERROR_INVALID_TLV_TAG, mask |-> mask]
    ELSE IF TagNumFromTag(e) = kPath THEN
        IF TestBit(mask, kPath) THEN [err |-> CHIP_ERROR_INVALID_TLV_TAG, mask |-> mask]
        ELSE IF NestedInit(e, kTLVType_List) # CHIP_NO_ERROR
            THEN [err |-> NestedInit(e, kTLVType_List), mask |-> SetBit(mask, kPath)]
        ELSE [err |-> NestedCheckSchemaValidity(e), mask |-> SetBit(mask, kPath)]
    ELSE IF TagNumFromTag(e) = kErrorStatus THEN
        IF TestBit(mask, kErrorStatus) THEN [err |-> CHIP_ERROR_INVALID_TLV_TAG, mask |-> mask]
        ELSE IF NestedInit(e, kTLVType_Structure) # CHIP_NO_ERROR
            THEN [err |-> NestedInit(e, kTLVType_Structure), mask |-> SetBit(mask, kErrorStatus)]
        ELSE [err |-> NestedCheckSchemaValidity(e), mask |-> SetBit(mask, kErrorStatus)]
    ELSE [err |-> CHIP_NO_ERROR, mask |-> mask]

\* while (CHIP_NO_ERROR == (err = reader.Next())) { ... }
RECURSIVE ASIB_Loop(_, _, _, _)
ASIB_Loop(m, tr, pos, mask) ==
    LET n == Next_(m, tr, pos) IN
    IF n.err # CHIP_NO_ERROR THEN Outcome(FALSE, n.err, n.pos, mask)
    ELSE LET s == ASIB_Element(m[n.pos], mask) IN
         IF s.err # CHIP_NO_ERROR THEN Outcome(TRUE, s.err, n.pos, s.mask)
         ELSE ASIB_Loop(m, tr, n.pos, s.mask)

\* if (CHIP_END_OF_TLV == err) { if (all required fields seen) err = CHIP_NO_ERROR; }
ASIB_RequiredFields(err, mask) ==
    IF err = CHIP_END_OF_TLV
    THEN IF TestBit(mask, kPath) /\ TestBit(mask, kErrorStatus) THEN CHIP_NO_ERROR ELSE err
    ELSE err

\* ASIB_CheckSchemaValidity returning success without ExitContainer
ASIB_CheckSchemaValidity_NoExit(m, tr, rd) ==
    LET l == ASIB_Loop(m, tr, rd, 0)
        err == IF l.ret THEN l.err ELSE ASIB_RequiredFields(l.err, l.mask)
    IN  [err |-> err, reader |-> Reader(l.pos, FALSE), mReader |-> rd]

\* The whole function, run by a parser whose cursor is at rd: the returned
\* error, the working reader it leaves behind and the parser's own cursor.
ASIB_CheckSchemaValidity(m, tr, rd) ==
    LET l == ASIB_Loop(m, tr, rd, 0)
        err == IF l.ret THEN l.err ELSE ASIB_RequiredFields(l.err, l.mask)
    IN  IF err # CHIP_NO_ERROR
        THEN [err |-> err, reader |-> Reader(l.pos, FALSE), mReader |-> rd]
        ELSE LET x == ExitContainer(m, Reader(l.pos, FALSE))
             IN [err |-> x.err, reader |-> x.reader, mReader |-> rd]

(***************************************************************************)
(* WriteResponseMessage::Parser::CheckSchemaValidity                       *)
(***************************************************************************)
\* WRM_Element with a default branch that rejects the unknown tag
WRM_Element_RejectUnknown(e, mask) ==
    IF ~IsContextTag(e) THEN [err |-> CHIP_NO_ERROR, mask |-> mask]
    ELSE IF TagNumFromTag(e) = kWriteResponses THEN
        IF TestBit(mask, kWriteResponses) THEN [err |-> CHIP_ERROR_INVALID_TLV_TAG, mask |-> mask]
        ELSE IF kTLVType_Array # e.type
            THEN [err |-> CHIP_ERROR_WRONG_TLV_TYPE, mask |-> SetBit(mask, kWriteResponses)]
        ELSE IF NestedInit(e, kTLVType_Array) # CHIP_NO_ERROR
            THEN [err |-> NestedInit(e, kTLVType_Array), mask |-> SetBit(mask, kWriteResponses)]
        ELSE [err |-> NestedCheckSchemaValidity(e), mask |-> SetBit(mask, kWriteResponses)]
    ELSE IF TagNumFromTag(e) = kInteractionModelRevisionTag THEN
        [err |-> CheckInteractionModelRevision(e), mask |-> mask]
    ELSE [err |-> CHIP_ERROR_INVALID_TLV_TAG, mask |-> mask]

\* the loop body for one element of a write-response message
WRM_Element(e, mask) ==
    IF ~IsContextTag(e) THEN [err |-> CHIP_NO_ERROR, mask |-> mask]
    ELSE IF TagNumFromTag(e) = kWriteResponses THEN
        IF TestBit(mask, kWriteResponses) THEN [err |-> CHIP_ERROR_INVALID_TLV_TAG, mask |-> mask]
        ELSE IF kTLVType_Array # e.type
            THEN [err |-> CHIP_ERROR_WRONG_TLV_TYPE, mask |-> SetBit(mask, kWriteResponses)]
        ELSE IF NestedInit(e, kTLVType_Array) # CHIP_NO_ERROR
            THEN [err |-> NestedInit(e, kTLVType_Array), mask |-> SetBit(mask, kWriteResponses)]
        ELSE [err |-> NestedCheckSchemaValidity(e), mask |-> SetBit(mask, kWriteResponses)]
    ELSE IF TagNumFromTag(e) = kInteractionModelRevisionTag THEN
        [err |-> CheckInteractionModelRevision(e), mask |-> mask]
    ELSE [err |-> CHIP_NO_ERROR, mask |-> mask]

RECURSIVE WRM_Loop(_, _, _, _)
\* The loop leaving at the first element that is not of the schema
\* (break where the code has continue)
WRM_Loop_BreakAtUnknown(m, tr, pos, mask) ==
    LET n == Next_(m, tr, pos) IN
    IF n.err # CHIP_NO_ERROR THEN Outcome(FALSE, n.err, n.pos, mask)
    ELSE IF ~IsContextTag(m[n.pos]) THEN Outcome(FALSE, CHIP_END_OF_TLV, n.pos, mask)
    ELSE LET s == WRM_Element(m[n.pos], mask) IN
         IF s.err # CHIP_NO_ERROR THEN Outcome(TRUE, s.err, n.pos, s.mask)
         ELSE WRM_Loop(m, tr, n.pos, s.mask)

WRM_Loop(m, tr, pos, mask) ==
    LET n == Next_(m, tr, pos) IN
    IF n.err # CHIP_NO_ERROR THEN Outcome(FALSE, n.err, n.pos, mask)
    ELSE LET s == WRM_Element(m[n.pos], mask) IN
         IF s.err # CHIP_NO_ERROR THEN Outcome(TRUE, s.err, n.pos, s.mask)
         ELSE WRM_Loop(m, tr, n.pos, s.mask)

\* WRM_RequiredFields without its else branch
WRM_RequiredFields_NoElse(err, mask) ==
    IF err = CHIP_END_OF_TLV
    THEN IF TestBit(mask, kWriteResponses) THEN CHIP_NO_ERROR ELSE err
    ELSE err

\* if (CHIP_END_OF_TLV == err) { ... else err = CHIP_ERROR_IM_MALFORMED_WRITE_RESPONSE_MESSAGE; }
WRM_RequiredFields(err, mask) ==
    IF err = CHIP_END_OF_TLV
    THEN IF TestBit(mask, kWriteResponses) THEN CHIP_NO_ERROR
         ELSE CHIP_ERROR_IM_MALFORMED_WRITE_RESPONSE_MESSAGE
    ELSE err

\* WRM_CheckSchemaValidity iterating with the parser's own reader
WRM_CheckSchemaValidity_OnOwnReader(m, tr, rd) ==
    LET l == WRM_Loop(m, tr, rd, 0)
        err == IF l.ret THEN l.err ELSE WRM_RequiredFields(l.err, l.mask)
    IN  IF err # CHIP_NO_ERROR
        THEN [err |-> err, reader |-> Reader(l.pos, FALSE), mReader |-> l.pos]
        ELSE LET x == ExitContainer(m, Reader(l.pos, FALSE))
             IN [err |-> x.err, reader |-> x.reader, mReader |-> x.reader.pos]

\* The whole function, as for AttributeStatusIB
WRM_CheckSchemaValidity(m, tr, rd) ==
    LET l == WRM_Loop(m, tr, rd, 0)
        err == IF l.ret THEN l.err ELSE WRM_RequiredFields(l.err, l.mask)
    IN  IF err # CHIP_NO_ERROR
        THEN [err |-> err, reader |-> Reader(l.pos, FALSE), mReader |-> rd]
        ELSE LET x == ExitContainer(m, Reader(l.pos, FALSE))
             IN [err |-> x.err, reader |-> x.reader, mReader |-> rd]

(***************************************************************************)
(* Field accessors                                                         *)
(***************************************************************************)
\* TLVReader::FindElementWithTag(ContextTag(num), dest), a const method: the
\* search runs on a copy of the reader, from its position on.  The result is
\* the error, the position found and the searched reader's own position.
FindElementWithTag(m, rd, num) ==
    LET hits == {i \in (rd + 1)..Len(m) : m[i].ctx /\ m[i].num = num} IN
    IF hits = {} THEN [err |-> CHIP_ERROR_TLV_TAG_NOT_FOUND, at |-> 0, mReader |-> rd]
    ELSE [err |-> CHIP_NO_ERROR,
          at |-> CHOOSE i \in hits : \A j \in hits : i <= j,
          mReader |-> rd]

\* An output parser: bound to the element at position at, or not initialized.
NotInitialized == [bound |-> FALSE, at |-> 0]
BoundTo(i) == [bound |-> TRUE, at |-> i]

\* GetField going on to Init when FindElementWithTag has failed
GetField_IgnoreFind(m, rd, num, type) ==
    LET f == FindElementWithTag(m, rd, num) IN
    IF f.err # CHIP_NO_ERROR
    THEN [err |-> CHIP_ERROR_WRONG_TLV_TYPE, out |-> NotInitialized, mReader |-> f.mReader]
    ELSE IF NestedInit(m[f.at], type) # CHIP_NO_ERROR
    THEN [err |-> NestedInit(m[f.at], type), out |-> NotInitialized, mReader |-> f.mReader]
    ELSE [err |-> CHIP_NO_ERROR, out |-> BoundTo(f.at), mReader |-> f.mReader]

\* ReturnErrorOnFailure(mReader.FindElementWithTag(tag, reader));
\* ReturnErrorOnFailure(apOut->Init(reader));
GetField(m, rd, num, type) ==
    LET f == FindElementWithTag(m, rd, num) IN
    IF f.err # CHIP_NO_ERROR
    THEN [err |-> f.err, out |-> NotInitialized, mReader |-> f.mReader]
    ELSE IF NestedInit(m[f.at], type) # CHIP_NO_ERROR
    THEN [err |-> NestedInit(m[f.at], type), out |-> NotInitialized, mReader |-> f.mReader]
    ELSE [err |-> CHIP_NO_ERROR, out |-> BoundTo(f.at), mReader |-> f.mReader]

GetPath(m, rd) == GetField(m, rd, kPath, kTLVType_List)

\* GetErrorStatus looking for the tag of Path
GetErrorStatus_PathTag(m, rd) == GetField(m, rd, kPath, kTLVType_Structure)

GetErrorStatus(m, rd) == GetField(m, rd, kErrorStatus, kTLVType_Structure)

GetWriteResponses(m, rd) == GetField(m, rd, kWriteResponses, kTLVType_Array)

(***************************************************************************)
(* The parser as a state machine: a parser is bound to a container, and    *)
(* its operations are called in any order, any number of times.            *)
(***************************************************************************)
\* the parts of the model that a specification leaves unused
McIdle == [pc |-> "unused"]
WsIdle == [pc |-> "unused"]
ShIdle == [pc |-> "unused"]

RestIdle == mc = McIdle /\ ws = WsIdle /\ sh = ShIdle

BuilderIdle ==
    /\ bType = "none"
    /\ mError = CHIP_NO_ERROR
    /\ open = FALSE
    /\ nested = <<>>
    /\ written = <<>>
    /\ space = 0
    /\ bOp = "none"
    /\ bErrAtCall = CHIP_NO_ERROR

InitParser ==
    /\ msg \in Messages
    /\ truncated \in BOOLEAN
    /\ mReader = 0
    /\ reader = Reader(0, FALSE)
    /\ lastOp = "Init"
    /\ lastErr = CHIP_NO_ERROR
    /\ out = NotInitialized
    /\ BuilderIdle
    /\ RestIdle

DoASIB_CheckSchemaValidity ==
    LET r == ASIB_CheckSchemaValidity(msg, truncated, mReader) IN
    /\ lastOp' = "AttributeStatusIB::CheckSchemaValidity"
    /\ lastErr' = r.err
    /\ reader' = r.reader
    /\ mReader' = r.mReader
    /\ out' = NotInitialized
    /\ UNCHANGED <<msg, truncated>>
    /\ UNCHANGED <<builderVars, restVars>>

DoWRM_CheckSchemaValidity ==
    LET r == WRM_CheckSchemaValidity(msg, truncated, mReader) IN
    /\ lastOp' = "WriteResponseMessage::CheckSchemaValidity"
    /\ lastErr' = r.err
    /\ reader' = r.reader
    /\ mReader' = r.mReader
    /\ out' = NotInitialized
    /\ UNCHANGED <<msg, truncated>>
    /\ UNCHANGED <<builderVars, restVars>>

DoGetPath ==
    LET r == GetPath(msg, mReader) IN
    /\ lastOp' = "GetPath"
    /\ lastErr' = r.err
    /\ out' = r.out
    /\ mReader' = r.mReader
    /\ UNCHANGED <<msg, truncated, reader>>
    /\ UNCHANGED <<builderVars, restVars>>

DoGetErrorStatus ==
    LET r == GetErrorStatus(msg, mReader) IN
    /\ lastOp' = "GetErrorStatus"
    /\ lastErr' = r.err
    /\ out' = r.out
    /\ mReader' = r.mReader
    /\ UNCHANGED <<msg, truncated, reader>>
    /\ UNCHANGED <<builderVars, restVars>>

DoGetWriteResponses ==
    LET r == GetWriteResponses(msg, mReader) IN
    /\ lastOp' = "GetWriteResponses"
    /\ lastErr' = r.err
    /\ out' = r.out
    /\ mReader' = r.mReader
    /\ UNCHANGED <<msg, truncated, reader>>
    /\ UNCHANGED <<builderVars, restVars>>

NextParser ==
    \/ DoASIB_CheckSchemaValidity
    \/ DoWRM_CheckSchemaValidity
    \/ DoGetPath
    \/ DoGetErrorStatus
    \/ DoGetWriteResponses

SpecParser == InitParser /\ [][NextParser]_vars

(***************************************************************************)
(* Vocabulary of the properties                                            *)
(***************************************************************************)
ASIB_Check == "AttributeStatusIB::CheckSchemaValidity"
WRM_Check == "WriteResponseMessage::CheckSchemaValidity"

\* positions of the context-tagged elements numbered num
Occurrences(m, num) == {i \in 1..Len(m) : m[i].ctx /\ m[i].num = num}

Present(m, num) == Occurrences(m, num) # {}

First(S) == CHOOSE i \in S : \A j \in S : i <= j

\* the position of the second occurrence of a tag that occurs twice
Second(m, num) == First(Occurrences(m, num) \ {First(Occurrences(m, num))})

\* An AttributeStatusIB structure with nothing wrong in it but, possibly,
\* absent fields: context tags only, none twice, fields of the schema's
\* types whose own checks pass, and a complete encoding.
ASIB_WellFormed(m, tr) ==
    /\ ~tr
    /\ \A i \in 1..Len(m) : m[i].ctx
    /\ Cardinality(Occurrences(m, kPath)) <= 1
    /\ Cardinality(Occurrences(m, kErrorStatus)) <= 1
    /\ \A i \in Occurrences(m, kPath) :
            m[i].type = kTLVType_List /\ m[i].chk = CHIP_NO_ERROR
    /\ \A i \in Occurrences(m, kErrorStatus) :
            m[i].type = kTLVType_Structure /\ m[i].chk = CHIP_NO_ERROR

\* C1: AttributeStatusIB::Parser::CheckSchemaValidity on a well-formed
\* structure that lacks Path or ErrorStatus fails with the malformed error of
\* its message type, never with success, end-of-data or not-found.
C1_MissingFieldIsMalformed ==
    (/\ lastOp = ASIB_Check
     /\ ASIB_WellFormed(msg, truncated)
     /\ (~Present(msg, kPath) \/ ~Present(msg, kErrorStatus)))
    => lastErr = CHIP_ERROR_IM_MALFORMED_ATTRIBUTE_STATUS_IB

\* The elements of a write-response message can all be passed over: the
\* encoding is complete and every revision element is an unsigned integer.
WRM_Exhaustible(m, tr) ==
    /\ ~tr
    /\ \A i \in Occurrences(m, kInteractionModelRevisionTag) :
            m[i].type = kTLVType_UnsignedInteger

\* C2: WriteResponseMessage::Parser::CheckSchemaValidity returns
\* CHIP_ERROR_IM_MALFORMED_WRITE_RESPONSE_MESSAGE when the elements are
\* exhausted and WriteResponses was not seen, and succeeds only if
\* WriteResponses was seen exactly once, as an array whose own check passes.
C2_WriteResponsesRequired ==
    lastOp = WRM_Check =>
        /\ (WRM_Exhaustible(msg, truncated) /\ ~Present(msg, kWriteResponses))
                => lastErr = CHIP_ERROR_IM_MALFORMED_WRITE_RESPONSE_MESSAGE
        /\ lastErr = CHIP_NO_ERROR =>
                /\ Cardinality(Occurrences(msg, kWriteResponses)) = 1
                /\ \A i \in Occurrences(msg, kWriteResponses) :
                        msg[i].type = kTLVType_Array /\ msg[i].chk = CHIP_NO_ERROR

C2_Witness ==
    /\ lastOp = WRM_Check
    /\ Len(msg) >= 2
    /\ ~Present(msg, kWriteResponses)
    /\ lastErr = CHIP_ERROR_IM_MALFORMED_WRITE_RESPONSE_MESSAGE

Tracked(op) == IF op = ASIB_Check THEN {kPath, kErrorStatus} ELSE {kWriteResponses}

Unrecognized(op) ==
    {e \in Elements :
        /\ e.ctx
        /\ e.num \notin (IF op = ASIB_Check THEN {kPath, kErrorStatus}
                         ELSE {kWriteResponses, kInteractionModelRevisionTag})}

\* m with x put in after position p
Extended(m, p, x) == SubSeq(m, 1, p) \o <<x>> \o SubSeq(m, p + 1, Len(m))

\* the verdict of an accessor and the element its output parser is bound to
FieldValue(m, r) == <<r.err, IF r.out.bound THEN m[r.out.at] ELSE "none">>

\* C4: when a check succeeds on a message, it also succeeds on the message
\* with one more element of an unrecognized context tag, wherever the
\* element is put, and the accessors of the message type (GetPath and
\* GetErrorStatus; GetWriteResponses) give the results they gave on the
\* original message.
C4_UnknownTagTolerated ==
    (lastOp \in {ASIB_Check, WRM_Check} /\ lastErr = CHIP_NO_ERROR) =>
        \A x \in Unrecognized(lastOp) : \A p \in 0..Len(msg) :
            LET m2 == Extended(msg, p, x) IN
            /\ lastOp = ASIB_Check =>
                /\ ASIB_CheckSchemaValidity(m2, truncated, mReader).err = CHIP_NO_ERROR
                /\ FieldValue(m2, GetPath(m2, mReader)) = FieldValue(msg, GetPath(msg, mReader))
                /\ FieldValue(m2, GetErrorStatus(m2, mReader))
                        = FieldValue(msg, GetErrorStatus(msg, mReader))
            /\ lastOp = WRM_Check =>
                /\ WRM_CheckSchemaValidity(m2, truncated, mReader).err = CHIP_NO_ERROR
                /\ FieldValue(m2, GetWriteResponses(m2, mReader))
                        = FieldValue(msg, GetWriteResponses(msg, mReader))

C4_Witness ==
    /\ lastOp = ASIB_Check
    /\ lastErr = CHIP_NO_ERROR
    /\ Len(msg) = 3
    /\ \E i \in 1..Len(msg) : msg[i] \in Unrecognized(ASIB_Check)

\* C5: both checks return an error for every message that holds an element
\* whose tag is not a context tag.
C5_NonContextTagRejected ==
    (/\ lastOp \in {ASIB_Check, WRM_Check}
     /\ \E i \in 1..Len(msg) : ~msg[i].ctx)
    => lastErr # CHIP_NO_ERROR

\* C6, as claimed: whatever a check returns, its working reader has left the
\* container.
C6_AlwaysExited ==
    lastOp \in {ASIB_Check, WRM_Check} => reader.exited

\* C6, amended: the working reader has left the container exactly when the
\* check returns success; every error return leaves it inside, at the
\* element (or the end) where the check gave up.
C6_ExitedIffSuccess ==
    lastOp \in {ASIB_Check, WRM_Check} =>
        /\ reader.exited <=> lastErr = CHIP_NO_ERROR
        /\ ~reader.exited => reader.pos <= Len(msg)

C6_Witness ==
    /\ lastOp = WRM_Check
    /\ lastErr = CHIP_NO_ERROR
    /\ reader.exited
    /\ Len(msg) >= 2

\* C7: a check never moves the parser's own cursor, so every accessor gives
\* after the check what it gave before.
C7_CheckLeavesCursor ==
    [][lastOp' \in {ASIB_Check, WRM_Check} =>
        /\ mReader' = mReader
        /\ GetPath(msg', mReader') = GetPath(msg, mReader)
        /\ GetErrorStatus(msg', mReader') = GetErrorStatus(msg, mReader)
        /\ GetWriteResponses(msg', mReader') = GetWriteResponses(msg, mReader)]_vars

C7_Witness ==
    /\ lastOp = ASIB_Check
    /\ reader.pos = 3
    /\ mReader = 0
    /\ lastErr # CHIP_NO_ERROR

Accessors == {"GetPath", "GetErrorStatus", "GetWriteResponses"}

TagOf(op) ==
    IF op = "GetPath" THEN kPath
    ELSE IF op = "GetErrorStatus" THEN kErrorStatus
    ELSE kWriteResponses

TypeOf(op) ==
    IF op = "GetPath" THEN kTLVType_List
    ELSE IF op = "GetErrorStatus" THEN kTLVType_Structure
    ELSE kTLVType_Array

\* C8: whatever ran before it, an accessor returns the not-found error and
\* leaves the output parser uninitialized when its tag is absent from the
\* container, and otherwise answers for the first element carrying the tag;
\* it leaves the parser's cursor where it was.
C8_AccessorsIndependent ==
    /\ mReader = 0
    /\ lastOp \in Accessors =>
        IF ~Present(msg, TagOf(lastOp))
        THEN lastErr = CHIP_ERROR_TLV_TAG_NOT_FOUND /\ out = NotInitialized
        ELSE LET i == First(Occurrences(msg, TagOf(lastOp))) IN
             IF msg[i].type = TypeOf(lastOp)
             THEN lastErr = CHIP_NO_ERROR /\ out = BoundTo(i)
             ELSE lastErr = CHIP_ERROR_WRONG_TLV_TYPE /\ out = NotInitialized

C8_Witness ==
    /\ lastOp = "GetErrorStatus"
    /\ ~Present(msg, kErrorStatus)
    /\ Present(msg, kPath)
    /\ lastErr = CHIP_ERROR_TLV_TAG_NOT_FOUND
    /\ out = NotInitialized

(***************************************************************************)
(* Builders.  A builder is the record of its fields together with the      *)
(* writer it shares with its nested builders.                              *)
(***************************************************************************)
ASIB == "AttributeStatusIB"
WRM == "WriteResponseMessage"

NestedNames(t) == IF t = ASIB THEN {"mPath", "mErrorStatus"} ELSE {"mWriteResponses"}

\* what the writer is asked to write
StartContainer(c, n, t) == [op |-> "StartContainer", ctx |-> c, num |-> n, type |-> t]
EndContainer == [op |-> "EndContainer", ctx |-> FALSE, num |-> 0, type |-> "none"]
PutRevision ==
    [op |-> "Put", ctx |-> TRUE, num |-> kInteractionModelRevisionTag,
     type |-> kTLVType_UnsignedInteger]

\* the answers of the writer: w is what its backing store says to the request
WriterOutcomes == {CHIP_NO_ERROR, CHIP_ERROR_BUFFER_TOO_SMALL, CHIP_ERROR_NO_MEMORY}

\* TLVWriter: one write through the builder's writer
Write(b, tok, w) ==
    IF w = CHIP_NO_ERROR /\ b.space > 0
    THEN [err |-> CHIP_NO_ERROR,
          b |-> [b EXCEPT !.written = Append(@, tok), !.space = @ - 1]]
    ELSE [err |-> IF w = CHIP_NO_ERROR THEN CHIP_ERROR_BUFFER_TOO_SMALL ELSE w, b |-> b]

\* a nested builder before its Init
NestedFresh == [inits |-> 0, mError |-> CHIP_NO_ERROR, open |-> FALSE, vals |-> <<>>]

\* Builder::Init(apWriter) of the structure or message: opens its container
BuilderInit(b, w) ==
    LET r == Write(b, StartContainer(FALSE, 0, kTLVType_Structure), w) IN
    [r.b EXCEPT !.mError = r.err, !.open = (r.err = CHIP_NO_ERROR)]

\* nested Builder::Init(mpWriter, tag): opens the field's container in the
\* parent's writer and records the outcome in the nested builder
NestedBuilderInit(b, name, num, type, w) ==
    LET r == Write(b, StartContainer(TRUE, num, type), w) IN
    [err |-> r.err,
     b |-> [r.b EXCEPT !.nested[name] =
                [inits |-> @.inits + 1, mError |-> r.err, open |-> (r.err = CHIP_NO_ERROR),
                 vals |-> <<>>]]]

\* Builder::EndOfContainer(): skipped when an error is recorded, else closes
\* the builder's container and records the writer's answer
EndOfContainer(b, w) ==
    IF b.mError # CHIP_NO_ERROR THEN b
    ELSE IF ~b.open THEN [b EXCEPT !.mError = CHIP_ERROR_INCORRECT_STATE]
    ELSE LET r == Write(b, EndContainer, w) IN
         [r.b EXCEPT !.mError = r.err, !.open = (r.err # CHIP_NO_ERROR)]

\* MessageBuilder::EncodeInteractionModelRevision(): puts the revision tag
EncodeInteractionModelRevision(b, w) == Write(b, PutRevision, w)

\* AttributeStatusIB::Builder::CreatePath
CreatePath(b, w) ==
    IF b.mError = CHIP_NO_ERROR
    THEN LET r == NestedBuilderInit(b, "mPath", kPath, kTLVType_List, w)
         IN [r.b EXCEPT !.mError = r.err]
    ELSE b

\* CreateErrorStatus without the test of mError
CreateErrorStatus_NoGuard(b, w) ==
    LET r == NestedBuilderInit(b, "mErrorStatus", kErrorStatus, kTLVType_Structure, w)
    IN [r.b EXCEPT !.mError = r.err]

\* CreateWriteResponses writing the field under the tag of another schema
CreateWriteResponses_WrongTag(b, w) ==
    IF b.mError = CHIP_NO_ERROR
    THEN LET r == NestedBuilderInit(b, "mWriteResponses", kErrorStatus, kTLVType_Array, w)
         IN [r.b EXCEPT !.mError = r.err]
    ELSE b

\* AttributeStatusIB::Builder::CreateErrorStatus
CreateErrorStatus(b, w) ==
    IF b.mError = CHIP_NO_ERROR
    THEN LET r == NestedBuilderInit(b, "mErrorStatus", kErrorStatus, kTLVType_Structure, w)
         IN [r.b EXCEPT !.mError = r.err]
    ELSE b

\* AttributeStatusIB::Builder::EndOfAttributeStatusIB
EndOfAttributeStatusIB(b, w) == EndOfContainer(b, w)

\* WriteResponseMessage::Builder::CreateWriteResponses
CreateWriteResponses(b, w) ==
    IF b.mError = CHIP_NO_ERROR
    THEN LET r == NestedBuilderInit(b, "mWriteResponses", kWriteResponses, kTLVType_Array, w)
         IN [r.b EXCEPT !.mError = r.err]
    ELSE b

\* a GetWriteResponses that initializes the nested builder on demand
Builder_GetWriteResponses_Lazy(b, w) ==
    IF b.nested["mWriteResponses"].inits = 0
    THEN NestedBuilderInit(b, "mWriteResponses", kWriteResponses, kTLVType_Array, w).b
    ELSE b

\* WriteResponseMessage::Builder::GetWriteResponses: hands out mWriteResponses
Builder_GetWriteResponses(b, w) == b

\* EndOfWriteResponseMessage that closes without encoding the revision
EndOfWriteResponseMessage_NoRevision(b, w1, w2) ==
    IF b.mError = CHIP_NO_ERROR THEN EndOfContainer(b, w2) ELSE b

\* WriteResponseMessage::Builder::EndOfWriteResponseMessage; w1 and w2 are
\* the writer's answers to the revision tag and to the closing
EndOfWriteResponseMessage(b, w1, w2) ==
    LET b1 == IF b.mError = CHIP_NO_ERROR
              THEN LET r == EncodeInteractionModelRevision(b, w1)
                   IN [r.b EXCEPT !.mError = r.err]
              ELSE b
    IN  IF b1.mError = CHIP_NO_ERROR THEN EndOfContainer(b1, w2) ELSE b1

\* the nested builder's own closing call (EndOfAttributePathIB, ...): it
\* goes by the nested builder's error, not by the parent's
EndOfNested(b, name, w) ==
    IF b.nested[name].mError # CHIP_NO_ERROR \/ ~b.nested[name].open THEN b
    ELSE LET r == Write(b, EndContainer, w) IN
         [r.b EXCEPT !.nested[name].mError = r.err,
                     !.nested[name].open = (r.err # CHIP_NO_ERROR)]

(***************************************************************************)
(* The builder as a state machine                                          *)
(***************************************************************************)
ParserIdle ==
    /\ msg = <<>>
    /\ truncated = FALSE
    /\ mReader = 0
    /\ reader = Reader(0, FALSE)
    /\ lastOp = "none"
    /\ lastErr = CHIP_NO_ERROR
    /\ out = NotInitialized

\* the builder fields as one record
Builder ==
    [mError |-> mError, open |-> open, nested |-> nested,
     written |-> written, space |-> space]

\* the operation named op has run and left the builder as b
Ran(op, b) ==
    /\ bOp' = op
    /\ bErrAtCall' = mError
    /\ mError' = b.mError
    /\ open' = b.open
    /\ nested' = b.nested
    /\ written' = b.written
    /\ space' = b.space
    /\ UNCHANGED bType
    /\ UNCHANGED <<parserVars, restVars>>

InitBuilder ==
    /\ bType \in {ASIB, WRM}
    /\ mError = CHIP_NO_ERROR
    /\ open = FALSE
    /\ nested = [n \in NestedNames(bType) |-> NestedFresh]
    /\ written = <<>>
    /\ space \in 0..MaxSpace
    /\ bOp = "constructed"
    /\ bErrAtCall = CHIP_NO_ERROR
    /\ ParserIdle
    /\ RestIdle

DoBuilderInit ==
    /\ bOp = "constructed"
    /\ \E w \in WriterOutcomes : Ran("Init", BuilderInit(Builder, w))

DoCreatePath ==
    /\ bType = ASIB /\ bOp # "constructed"
    /\ \E w \in WriterOutcomes : Ran("CreatePath", CreatePath(Builder, w))

DoCreateErrorStatus ==
    /\ bType = ASIB /\ bOp # "constructed"
    /\ \E w \in WriterOutcomes : Ran("CreateErrorStatus", CreateErrorStatus(Builder, w))

DoEndOfAttributeStatusIB ==
    /\ bType = ASIB /\ bOp # "constructed"
    /\ \E w \in WriterOutcomes :
            Ran("EndOfAttributeStatusIB", EndOfAttributeStatusIB(Builder, w))

DoCreateWriteResponses ==
    /\ bType = WRM /\ bOp # "constructed"
    /\ \E w \in WriterOutcomes :
            Ran("CreateWriteResponses", CreateWriteResponses(Builder, w))

DoEndOfWriteResponseMessage ==
    /\ bType = WRM /\ bOp # "constructed"
    /\ \E w1, w2 \in WriterOutcomes :
            Ran("EndOfWriteResponseMessage", EndOfWriteResponseMessage(Builder, w1, w2))

DoBuilder_GetWriteResponses ==
    /\ bType = WRM /\ bOp # "constructed"
    /\ \E w \in WriterOutcomes :
            Ran("Builder::GetWriteResponses", Builder_GetWriteResponses(Builder, w))

DoEndOfNested ==
    /\ bOp # "constructed"
    /\ \E n \in NestedNames(bType) : \E w \in WriterOutcomes :
            /\ nested[n].inits > 0
            /\ Ran("EndOfNested", EndOfNested(Builder, n, w))

NextBuilder ==
    \/ DoBuilderInit
    \/ DoCreatePath
    \/ DoCreateErrorStatus
    \/ DoEndOfAttributeStatusIB
    \/ DoCreateWriteResponses
    \/ DoEndOfWriteResponseMessage
    \/ DoBuilder_GetWriteResponses
    \/ DoEndOfNested

SpecBuilder == InitBuilder /\ [][NextBuilder]_vars

OwnOps ==
    {"CreatePath", "CreateErrorStatus", "CreateWriteResponses",
     "EndOfAttributeStatusIB", "EndOfWriteResponseMessage"}

\* C9: an operation of a builder that has an error recorded changes
\* nothing: the error stays the one recorded, the writer gets nothing more
\* to write, and no nested builder is initialized.
C9_StickyError ==
    [][(mError # CHIP_NO_ERROR /\ bOp' \in OwnOps) =>
        /\ mError' = mError
        /\ written' = written
        /\ space' = space
        /\ open' = open
        /\ nested' = nested]_vars

C9_Witness ==
    /\ bOp = "CreateErrorStatus"
    /\ bErrAtCall = CHIP_ERROR_NO_MEMORY
    /\ mError = CHIP_ERROR_NO_MEMORY
    /\ nested["mPath"].inits = 1
    /\ nested["mErrorStatus"].inits = 0
    /\ space > 0

\* the last k things written
LastWritten(sq, k) == SubSeq(sq, Len(sq) - k + 1, Len(sq))

\* C10: when EndOfWriteResponseMessage runs on a builder without error and
\* leaves it without error, it has written the revision tag while the
\* builder's container was open and closed the container right after it;
\* EndOfAttributeStatusIB under the same conditions has written the closing
\* alone and the revision tag has not been written at all.
C10_RevisionThenClose ==
    [][(mError = CHIP_NO_ERROR /\ mError' = CHIP_NO_ERROR) =>
        /\ bOp' = "EndOfWriteResponseMessage" =>
            /\ open /\ ~open'
            /\ written' = written \o <<PutRevision, EndContainer>>
        /\ bOp' = "EndOfAttributeStatusIB" =>
            /\ open /\ ~open'
            /\ written' = written \o <<EndContainer>>
            /\ \A i \in 1..Len(written') : written'[i] # PutRevision]_vars

C10_Witness ==
    /\ bOp = "EndOfWriteResponseMessage"
    /\ bErrAtCall = CHIP_NO_ERROR
    /\ mError = CHIP_NO_ERROR
    /\ ~open
    /\ Len(written) = 5
    /\ LastWritten(written, 2) = <<PutRevision, EndContainer>>

\* the nested builder a Create operation initializes
CreatedBy(op) ==
    IF op = "CreatePath" THEN "mPath"
    ELSE IF op = "CreateErrorStatus" THEN "mErrorStatus"
    ELSE "mWriteResponses"

CreateOps == {"CreatePath", "CreateErrorStatus", "CreateWriteResponses"}

\* C11, as claimed: whatever is called on a builder, each of its nested
\* builders is initialized at most once.
C11_InitAtMostOnce ==
    \A n \in DOMAIN nested : nested[n].inits <= 1

\* C11, amended: GetWriteResponses initializes nothing and writes nothing;
\* a Create call runs the Init of its nested builder exactly when the
\* builder has no error recorded, also when that nested builder has been
\* initialized before, and it touches no other nested builder.
C11_CreateInitsUnlessError ==
    [][/\ bOp' = "Builder::GetWriteResponses" =>
            /\ nested' = nested
            /\ written' = written
            /\ space' = space
            /\ mError' = mError
       /\ bOp' \in CreateOps =>
            /\ nested'[CreatedBy(bOp')].inits
                    = nested[CreatedBy(bOp')].inits + (IF mError = CHIP_NO_ERROR THEN 1 ELSE 0)
            /\ \A n \in DOMAIN nested \ {CreatedBy(bOp')} : nested'[n] = nested[n]]_vars

C11_Witness ==
    /\ bOp = "CreateWriteResponses"
    /\ bErrAtCall = CHIP_NO_ERROR
    /\ mError = CHIP_NO_ERROR
    /\ nested["mWriteResponses"].inits = 2
    /\ Len(written) = 3

(***************************************************************************)
(* Encoding and decoding: what a builder has written is read back by a     *)
(* parser.                                                                 *)
(***************************************************************************)
\* the values a nested builder encodes (a path, a status, an array entry)
Values == 1..MaxValue

\* what the writer is asked to write for one value of a nested builder
PutValue(v) == [op |-> "PutValue", val |-> v]

\* the nested builder's own encoding call: it writes the value v into its
\* container, going by the nested builder's error
NestedPut(b, name, v, w) ==
    IF b.nested[name].mError # CHIP_NO_ERROR \/ ~b.nested[name].open THEN b
    ELSE LET r == Write(b, PutValue(v), w) IN
         [r.b EXCEPT !.nested[name].mError = r.err,
                     !.nested[name].vals = IF r.err = CHIP_NO_ERROR THEN Append(@, v) ELSE @]

\* The elements that start at position i of what was written, up to the end
\* of the container they are in: the elements, the position after them and
\* whether the container was closed.
RECURSIVE ParseItems(_, _)
ParseItems(toks, i) ==
    IF i > Len(toks) THEN [items |-> <<>>, next |-> i, closed |-> FALSE]
    ELSE IF toks[i].op = "EndContainer" THEN [items |-> <<>>, next |-> i + 1, closed |-> TRUE]
    ELSE IF toks[i].op = "StartContainer" THEN
        LET inner == ParseItems(toks, i + 1)
            rest == ParseItems(toks, inner.next)
        IN [items |-> <<[ctx |-> toks[i].ctx, num |-> toks[i].num, type |-> toks[i].type,
                         leaf |-> FALSE, val |-> 0,
                         content |-> inner.items, complete |-> inner.closed]>> \o rest.items,
            next |-> rest.next, closed |-> rest.closed]
    ELSE LET rest == ParseItems(toks, i + 1) IN
         [items |-> <<IF toks[i].op = "PutValue"
                      THEN [ctx |-> FALSE, num |-> 0, type |-> kTLVType_UnsignedInteger,
                            leaf |-> TRUE, val |-> toks[i].val,
                            content |-> <<>>, complete |-> TRUE]
                      ELSE [ctx |-> toks[i].ctx, num |-> toks[i].num, type |-> toks[i].type,
                            leaf |-> TRUE, val |-> 0,
                            content |-> <<>>, complete |-> TRUE]>> \o rest.items,
          next |-> rest.next, closed |-> rest.closed]

\* the values encoded in a container, in order
ValuesOf(item) == [k \in 1..Len(item.content) |-> item.content[k].val]

\* The schema check of the nested parser on a decoded container: its
\* encoding is complete and it holds encoded values only, at least one
\* unless it is an array.
DecodedCheck(item) ==
    IF item.leaf THEN CHIP_NO_ERROR
    ELSE IF ~item.complete THEN CHIP_ERROR_TLV_UNDERRUN
    ELSE IF \E k \in 1..Len(item.content) :
                ~item.content[k].leaf \/ item.content[k].ctx
         THEN CHIP_ERROR_UNEXPECTED_TLV_ELEMENT
    ELSE IF item.type # kTLVType_Array /\ item.content = <<>> THEN CHIP_END_OF_TLV
    ELSE CHIP_NO_ERROR

\* a decoded element as the parser sees it, with the values it holds
DecodedElem(item) ==
    [ctx |-> item.ctx, num |-> item.num, type |-> item.type,
     chk |-> DecodedCheck(item), content |-> ValuesOf(item)]

\* The parser's view of an encoding whose first element is the structure or
\* message: the elements of that container and whether it is cut short.
Decode(toks) ==
    LET top == ParseItems(toks, 1).items[1] IN
    [msg |-> [k \in 1..Len(top.content) |-> DecodedElem(top.content[k])],
     truncated |-> ~top.complete]

\* Parser::Init on the encoding of a builder that has ended without error
DoParserInit ==
    /\ lastOp = "none"
    /\ bOp # "constructed" /\ mError = CHIP_NO_ERROR /\ ~open
    /\ written # <<>>
    /\ msg' = Decode(written).msg
    /\ truncated' = Decode(written).truncated
    /\ mReader' = 0
    /\ lastOp' = "Init"
    /\ UNCHANGED <<reader, lastErr, out>>
    /\ UNCHANGED <<builderVars, restVars>>

DoNestedPut ==
    /\ bOp # "constructed"
    /\ \E n \in NestedNames(bType) : \E v \in Values : \E w \in WriterOutcomes :
            /\ nested[n].open
            /\ Ran("NestedPut", NestedPut(Builder, n, v, w))

InitCodec ==
    /\ bType \in {ASIB, WRM}
    /\ mError = CHIP_NO_ERROR
    /\ open = FALSE
    /\ nested = [n \in NestedNames(bType) |-> NestedFresh]
    /\ written = <<>>
    /\ space = MaxCodecSpace
    /\ bOp = "constructed"
    /\ bErrAtCall = CHIP_NO_ERROR
    /\ ParserIdle
    /\ RestIdle

\* The supported use of a builder: a field is created once, while the
\* builder's container is open and no other field is being written; it is
\* filled and closed before the next one is created or the builder ended.
NoNestedOpen == \A n \in DOMAIN nested : ~nested[n].open

Building == lastOp = "none" /\ mError = CHIP_NO_ERROR /\ open

MayCreate(n) ==
    Building /\ NoNestedOpen /\ n \in DOMAIN nested /\ nested[n].inits = 0

NextCodec ==
    \/ lastOp = "none" /\ DoBuilderInit
    \/ MayCreate("mPath") /\ DoCreatePath
    \/ MayCreate("mErrorStatus") /\ DoCreateErrorStatus
    \/ MayCreate("mWriteResponses") /\ DoCreateWriteResponses
    \/ Building /\ DoNestedPut
    \/ Building /\ DoEndOfNested
    \/ Building /\ DoBuilder_GetWriteResponses
    \/ Building /\ NoNestedOpen /\ DoEndOfAttributeStatusIB
    \/ Building /\ NoNestedOpen /\ DoEndOfWriteResponseMessage
    \/ DoParserInit
    \/ lastOp # "none" /\ NextParser

SpecCodec == InitCodec /\ [][NextCodec]_vars

\* the parser is bound to what the builder of type t has encoded
Decoded(t) == bType = t /\ lastOp # "none"

\* C12: a write-response message built with a WriteResponses array of zero
\* entries passes WriteResponseMessage::Parser::CheckSchemaValidity, and
\* GetWriteResponses succeeds on it with an array parser that holds nothing.
C12_EmptyArrayValid ==
    (/\ Decoded(WRM)
     /\ nested["mWriteResponses"].inits = 1
     /\ nested["mWriteResponses"].vals = <<>>)
    => /\ lastOp = WRM_Check => lastErr = CHIP_NO_ERROR /\ reader.exited
       /\ lastOp = "GetWriteResponses" =>
            /\ lastErr = CHIP_NO_ERROR
            /\ out.bound
            /\ msg[out.at].type = kTLVType_Array
            /\ msg[out.at].content = <<>>

C12_Witness ==
    /\ Decoded(WRM)
    /\ nested["mWriteResponses"].inits = 1
    /\ nested["mWriteResponses"].vals = <<>>
    /\ lastOp = "GetWriteResponses"
    /\ lastErr = CHIP_NO_ERROR
    /\ Len(msg) = 2

\* C13: when a path and an error status have been built with CreatePath,
\* CreateErrorStatus and EndOfAttributeStatusIB, the parser bound to the
\* encoding passes CheckSchemaValidity, GetPath gives the path that was
\* built and GetErrorStatus the status that was built.
C13_RoundTrip ==
    (/\ Decoded(ASIB)
     /\ nested["mPath"].inits = 1 /\ nested["mPath"].vals # <<>>
     /\ nested["mErrorStatus"].inits = 1 /\ nested["mErrorStatus"].vals # <<>>)
    => /\ lastOp = ASIB_Check => lastErr = CHIP_NO_ERROR
       /\ lastOp = "GetPath" =>
            /\ lastErr = CHIP_NO_ERROR
            /\ out.bound
            /\ msg[out.at].content = nested["mPath"].vals
       /\ lastOp = "GetErrorStatus" =>
            /\ lastErr = CHIP_NO_ERROR
            /\ out.bound
            /\ msg[out.at].content = nested["mErrorStatus"].vals

C13_Witness ==
    /\ Decoded(ASIB)
    /\ nested["mPath"].vals = <<2>>
    /\ nested["mErrorStatus"].vals = <<1>>
    /\ lastOp = "GetErrorStatus"
    /\ lastErr = CHIP_NO_ERROR
    /\ out.bound
    /\ msg[out.at].content = <<1>>

\* m with the elements at i and j exchanged
Swap(m, i, j) ==
    [k \in DOMAIN m |-> IF k = i THEN m[j] ELSE IF k = j THEN m[i] ELSE m[k]]

\* the verdicts of both checks on message m
Verdicts(m) ==
    <<ASIB_CheckSchemaValidity(m, truncated, mReader).err = CHIP_NO_ERROR,
      WRM_CheckSchemaValidity(m, truncated, mReader).err = CHIP_NO_ERROR>>

\* C14: whether CheckSchemaValidity passes or fails does not depend on the
\* order of the elements: exchanging any two elements of the message leaves
\* the verdict of the check that ran as it is.  Every message up to the
\* bound is an initial state, so the exchanges compose to every permutation.
C14_OrderIndependent ==
    (lastOp \in {ASIB_Check, WRM_Check}) =>
        /\ (lastErr = CHIP_NO_ERROR) = Verdicts(msg)[IF lastOp = ASIB_Check THEN 1 ELSE 2]
        /\ \A i, j \in DOMAIN msg : i < j => Verdicts(Swap(msg, i, j)) = Verdicts(msg)

C14_Witness ==
    /\ lastOp = ASIB_Check
    /\ lastErr = CHIP_NO_ERROR
    /\ Len(msg) = 3
    /\ IsContextTag(msg[1]) /\ TagNumFromTag(msg[1]) = kErrorStatus
    /\ IsContextTag(msg[3]) /\ TagNumFromTag(msg[3]) = kPath
    /\ Verdicts(Swap(msg, 1, 3))[1]

(***************************************************************************)
(* MessagingContext: the fixture that brings the messaging layers up and   *)
(* down                                                                    *)
(***************************************************************************)
FabricCapacity == 2
MaxNodeId == 2
MaxExchanges == 2
MaxCallbacks == 2

kUndefinedNodeId == 0

\* fabric indices the fixture may be given; the last lies beyond the table
FabricIndices == 0..FabricCapacity
NodeIds == 1..MaxNodeId
Delegates == {"d1", "d2"}
Callbacks == {"OnMessageReceived", "OnResponseTimeout", "OnExchangeClosed"}

\* what a collaborator's Init, NewPairing or Shutdown may return
CollaboratorErrors == {CHIP_ERROR_INCORRECT_STATE, CHIP_ERROR_BUFFER_TOO_SMALL}
CollaboratorOutcomes == {CHIP_NO_ERROR} \cup CollaboratorErrors

\* FabricTable::Reset
EmptyFabrics == [i \in 0..(FabricCapacity - 1) |-> kUndefinedNodeId]

\* FabricTable::AssignFabricIndex: the slot, or nullptr when there is no
\* such slot or it is bound to another identity.
AssignFabricIndex(tbl, index, nodeId) ==
    IF index \notin DOMAIN tbl THEN [ptr |-> FALSE, tbl |-> tbl]
    ELSE IF tbl[index] \notin {kUndefinedNodeId, nodeId} THEN [ptr |-> FALSE, tbl |-> tbl]
    ELSE [ptr |-> TRUE, tbl |-> [tbl EXCEPT ![index] = nodeId]]

\* the fixture after construction
MC_Constructed(sf, df, sn, dn) ==
    [pc |-> "constructed", op |-> "none", ret |-> CHIP_NO_ERROR,
     mSrcFabricIndex |-> sf, mDestFabricIndex |-> df,
     sourceNodeId |-> sn, destinationNodeId |-> dn,
     mFabrics |-> EmptyFabrics, ioUp |-> FALSE, pairings |-> {},
     calls |-> <<>>, exchanges |-> <<>>, fired |-> 0]

\* one call made by the fixture: the step, whether it failed and the error
\* it returned
Call(c, step, failed, err) ==
    [c EXCEPT !.calls = Append(@, [step |-> step, failed |-> failed, err |-> err])]

CallCollaborator(c, step, err) == Call(c, step, err # CHIP_NO_ERROR, err)

MC_Return(c, op, err) ==
    [c EXCEPT !.op = op, !.ret = err,
              !.pc = IF op = "Shutdown" THEN "shutdown"
                     ELSE IF err = CHIP_NO_ERROR THEN "initialised" ELSE "initFailed"]

\* VerifyOrReturnError that never returns
VerifyFabric_Unchecked(ptr) == CHIP_NO_ERROR

\* VerifyOrReturnError(fabric != nullptr, CHIP_ERROR_NO_MEMORY)
VerifyFabric(ptr) == IF ptr THEN CHIP_NO_ERROR ELSE CHIP_ERROR_NO_MEMORY

\* MessagingContext::Init; r gives what each collaborator returns if called
MC_Init(c, r) ==
    LET s0 == [c EXCEPT !.calls = <<>>]
        s1 == [CallCollaborator(s0, "IOContext::Init", r.io)
                  EXCEPT !.ioUp = (r.io = CHIP_NO_ERROR)]
    IN  IF r.io # CHIP_NO_ERROR THEN MC_Return(s1, "Init", r.io) ELSE
    LET s2 == [Call(s1, "FabricTable::Reset", FALSE, CHIP_NO_ERROR)
                  EXCEPT !.mFabrics = EmptyFabrics]
        a1 == AssignFabricIndex(s2.mFabrics, c.mSrcFabricIndex, c.sourceNodeId)
        s3 == [Call(s2, "AssignFabricIndex(src)", ~a1.ptr, CHIP_NO_ERROR)
                  EXCEPT !.mFabrics = a1.tbl]
    IN  IF VerifyFabric(a1.ptr) # CHIP_NO_ERROR
        THEN MC_Return(s3, "Init", VerifyFabric(a1.ptr)) ELSE
    LET a2 == AssignFabricIndex(s3.mFabrics, c.mDestFabricIndex, c.destinationNodeId)
        s4 == [Call(s3, "AssignFabricIndex(dest)", ~a2.ptr, CHIP_NO_ERROR)
                  EXCEPT !.mFabrics = a2.tbl]
    IN  IF VerifyFabric(a2.ptr) # CHIP_NO_ERROR
        THEN MC_Return(s4, "Init", VerifyFabric(a2.ptr)) ELSE
    LET s5 == CallCollaborator(s4, "SecureSessionMgr::Init", r.sm)
    IN  IF r.sm # CHIP_NO_ERROR THEN MC_Return(s5, "Init", r.sm) ELSE
    LET s6 == CallCollaborator(s5, "ExchangeManager::Init", r.em)
    IN  IF r.em # CHIP_NO_ERROR THEN MC_Return(s6, "Init", r.em) ELSE
    LET s7 == CallCollaborator(s6, "MessageCounterManager::Init", r.mcm)
    IN  IF r.mcm # CHIP_NO_ERROR THEN MC_Return(s7, "Init", r.mcm) ELSE
    LET s8 == [CallCollaborator(s7, "NewPairing(kInitiator)", r.p1)
                  EXCEPT !.pairings = IF r.p1 = CHIP_NO_ERROR
                                      THEN @ \cup {"kInitiator"} ELSE @]
    IN  IF r.p1 # CHIP_NO_ERROR THEN MC_Return(s8, "Init", r.p1) ELSE
    LET s9 == [CallCollaborator(s8, "NewPairing(kResponder)", r.p2)
                  EXCEPT !.pairings = IF r.p2 = CHIP_NO_ERROR
                                      THEN @ \cup {"kResponder"} ELSE @]
    IN  MC_Return(s9, "Init", r.p2)

\* ExchangeManager::Shutdown: closes every open exchange
ExchangeManager_Shutdown(exs) == [k \in DOMAIN exs |-> [exs[k] EXCEPT !.open = FALSE]]

\* Shutdown that leaves the exchange manager up
MC_Shutdown_IOOnly(c, io) ==
    LET s0 == [c EXCEPT !.calls = <<>>]
        s2 == [CallCollaborator(s0, "IOContext::Shutdown", io) EXCEPT !.ioUp = FALSE]
    IN  MC_Return(s2, "Shutdown", io)

\* MessagingContext::Shutdown
MC_Shutdown(c, io) ==
    LET s0 == [c EXCEPT !.calls = <<>>]
        s1 == [Call(s0, "ExchangeManager::Shutdown", FALSE, CHIP_NO_ERROR)
                  EXCEPT !.exchanges = ExchangeManager_Shutdown(@), !.pairings = {}]
        s2 == [CallCollaborator(s1, "IOContext::Shutdown", io) EXCEPT !.ioUp = FALSE]
    IN  MC_Return(s2, "Shutdown", io)

\* MessagingContext::GetSessionLocalToPeer
GetSessionLocalToPeer(c) == [node |-> c.destinationNodeId, fabric |-> c.mSrcFabricIndex]

\* MessagingContext::GetSessionPeerToLocal
GetSessionPeerToLocal(c) == [node |-> c.sourceNodeId, fabric |-> c.mDestFabricIndex]

\* ExchangeManager::NewContext(session, delegate)
NewContext(c, session, delegate) ==
    [c EXCEPT !.exchanges = Append(@, [session |-> session, delegate |-> delegate,
                                       open |-> TRUE])]

\* MessagingContext::NewExchangeToPeer
NewExchangeToPeer(c, delegate) ==
    [NewContext(c, GetSessionLocalToPeer(c), delegate) EXCEPT !.op = "NewExchangeToPeer"]

\* MessagingContext::NewExchangeToLocal
NewExchangeToLocal(c, delegate) ==
    [NewContext(c, GetSessionPeerToLocal(c), delegate) EXCEPT !.op = "NewExchangeToLocal"]

\* the exchange layer calling the delegate of exchange k
DelegateCallback(c, k, cb) ==
    [c EXCEPT !.op = cb, !.fired = @ + 1,
              !.exchanges[k].open = (cb # "OnExchangeClosed")]

\* the collaborators Init calls
Collaborators == {"io", "sm", "em", "mcm", "p1", "p2"}

OnlyMc == UNCHANGED <<parserVars, builderVars, ws, sh>>

DoMC_Init ==
    /\ mc.pc \in {"constructed", "shutdown"}
    /\ \E failing \in Collaborators \cup {"none"} : \E e \in CollaboratorErrors :
            mc' = MC_Init(mc, [x \in Collaborators |->
                                  IF x = failing THEN e ELSE CHIP_NO_ERROR])
    /\ OnlyMc

DoMC_Shutdown ==
    /\ mc.pc \in {"initialised", "initFailed"}
    /\ \E io \in CollaboratorOutcomes : mc' = MC_Shutdown(mc, io)
    /\ OnlyMc

DoNewExchangeToPeer ==
    /\ mc.pc = "initialised"
    /\ Len(mc.exchanges) < MaxExchanges
    /\ \E d \in Delegates : mc' = NewExchangeToPeer(mc, d)
    /\ OnlyMc

DoNewExchangeToLocal ==
    /\ mc.pc = "initialised"
    /\ Len(mc.exchanges) < MaxExchanges
    /\ \E d \in Delegates : mc' = NewExchangeToLocal(mc, d)
    /\ OnlyMc

DoDelegateCallback ==
    /\ mc.pc # "unused"
    /\ mc.fired < MaxCallbacks
    /\ \E k \in DOMAIN mc.exchanges : \E cb \in Callbacks :
            /\ mc.exchanges[k].open
            /\ mc' = DelegateCallback(mc, k, cb)
    /\ OnlyMc

InitMessaging ==
    /\ \E sf, df \in FabricIndices : \E sn, dn \in NodeIds :
            mc = MC_Constructed(sf, df, sn, dn)
    /\ ws = WsIdle
    /\ sh = ShIdle
    /\ ParserIdle
    /\ BuilderIdle

NextMessaging ==
    \/ DoMC_Init
    \/ DoMC_Shutdown
    \/ DoNewExchangeToPeer
    \/ DoNewExchangeToLocal
    \/ DoDelegateCallback

SpecMessaging == InitMessaging /\ [][NextMessaging]_vars

\* the calls of MessagingContext::Init, in the order of the code
InitOrder ==
    <<"IOContext::Init", "FabricTable::Reset",
      "AssignFabricIndex(src)", "AssignFabricIndex(dest)",
      "SecureSessionMgr::Init", "ExchangeManager::Init", "MessageCounterManager::Init",
      "NewPairing(kInitiator)", "NewPairing(kResponder)">>

AfterInit == mc.pc \in {"initialised", "initFailed"}

CallsOf(step) == {k \in DOMAIN mc.calls : mc.calls[k].step = step}

\* C15: the calls MessagingContext::Init has made are an initial part of
\* the fixed order (Reset, both AssignFabricIndex, SecureSessionMgr::Init,
\* ExchangeManager::Init, MessageCounterManager::Init, both NewPairing), so
\* the session manager's Init is called at most once, after Reset and both
\* assignments and before any NewPairing, and once whenever the steps
\* before it succeed; only the last call made can have failed, Init then
\* returns that call's error (CHIP_ERROR_NO_MEMORY for a fabric
\* assignment), and Init returns success only after all the calls.
C15_InitOrder ==
    AfterInit =>
        LET n == Len(mc.calls) IN
        /\ n \in 1..Len(InitOrder)
        /\ \A k \in 1..n : mc.calls[k].step = InitOrder[k]
        /\ \A k \in 1..(n - 1) : ~mc.calls[k].failed
        /\ Cardinality(CallsOf("SecureSessionMgr::Init")) = (IF n >= 5 THEN 1 ELSE 0)
        /\ mc.calls[n].failed =>
              /\ mc.ret # CHIP_NO_ERROR
              /\ mc.ret = IF mc.calls[n].step \in {"AssignFabricIndex(src)",
                                                    "AssignFabricIndex(dest)"}
                          THEN CHIP_ERROR_NO_MEMORY ELSE mc.calls[n].err
        /\ ~mc.calls[n].failed => n = Len(InitOrder) /\ mc.ret = CHIP_NO_ERROR

C15_Witness ==
    /\ mc.pc = "initFailed"
    /\ mc.op = "Init"
    /\ Len(mc.calls) = 4
    /\ mc.calls[4].failed
    /\ mc.mSrcFabricIndex = mc.mDestFabricIndex
    /\ mc.ret = CHIP_ERROR_NO_MEMORY

\* C16: MessagingContext::Shutdown shuts the exchange manager down and then
\* the IO context, and once Shutdown has returned no delegate callback
\* fires for an exchange created by NewExchangeToPeer or NewExchangeToLocal.
C16_ShutdownQuiesces ==
    [][/\ (mc.pc # "shutdown" /\ mc'.pc = "shutdown") =>
            [k \in DOMAIN mc'.calls |-> mc'.calls[k].step]
                = <<"ExchangeManager::Shutdown", "IOContext::Shutdown">>
       /\ (mc.pc = "shutdown" /\ mc'.pc = "shutdown") =>
            mc'.fired = mc.fired /\ mc'.op \notin Callbacks]_vars

C16_Witness ==
    /\ mc.pc = "shutdown"
    /\ Len(mc.exchanges) = 2
    /\ mc.exchanges[1].session = GetSessionLocalToPeer(mc)
    /\ mc.exchanges[2].session = GetSessionPeerToLocal(mc)
    /\ mc.exchanges[1].session # mc.exchanges[2].session
    /\ \A k \in DOMAIN mc.exchanges : ~mc.exchanges[k].open
    /\ mc.fired = 1

(***************************************************************************)
(* WatchableSocketBasis                                                    *)
(***************************************************************************)
MaxFd == 1

kInvalidFd == -1

\* what Attach may be handed: a descriptor, or the -1 of a failed socket()
Fds == kInvalidFd..MaxFd
SocketEventFlags == {"kRead", "kWrite", "kExcept", "kError"}
SocketCallbacks == {"nullptr", "callback"}
HookOutcomes == {CHIP_NO_ERROR, CHIP_ERROR_INCORRECT_STATE}

\* a socket object before Init: its members hold whatever the memory held
WS_Raw(fd, pending, cb) ==
    [pc |-> "raw", mFD |-> fd, mPendingIO |-> pending, mCallback |-> cb,
     readRequested |-> FALSE, writeRequested |-> FALSE, attached |-> kInvalidFd,
     op |-> "none", ret |-> CHIP_NO_ERROR, fd |-> kInvalidFd, request |-> TRUE,
     hook |-> "none", seen |-> kInvalidFd, retFd |-> kInvalidFd,
     closed |-> kInvalidFd, released |-> kInvalidFd]

\* entering a method: what the previous call reported is forgotten
Enter(s, op) ==
    [s EXCEPT !.op = op, !.ret = CHIP_NO_ERROR, !.fd = kInvalidFd, !.request = TRUE,
              !.hook = "none", !.seen = kInvalidFd, !.retFd = kInvalidFd,
              !.closed = kInvalidFd, !.released = kInvalidFd]

\* WatchableSocketBasis::HasFD
HasFD(s) == s.mFD >= 0

\* WatchableSocketBasis::GetFD
GetFD(s) == s.mFD

\* WatchableSocketBasis::Init
WS_Init(s) ==
    [Enter(s, "Init") EXCEPT !.pc = "ready", !.mFD = kInvalidFd, !.mPendingIO = {},
                             !.mCallback = "nullptr", !.hook = "OnInit",
                             !.readRequested = FALSE, !.writeRequested = FALSE,
                             !.attached = kInvalidFd]

\* Attach that gives the descriptor up again when OnAttach fails
WS_Attach_RollBack(s, fd, res) ==
    [Enter(s, "Attach") EXCEPT !.mFD = IF res = CHIP_NO_ERROR THEN fd ELSE s.mFD,
                               !.hook = "OnAttach", !.ret = res, !.fd = fd,
                               !.attached = IF fd >= 0 THEN fd ELSE kInvalidFd]

\* WatchableSocketBasis::Attach; res is what OnAttach returns
WS_Attach(s, fd, res) ==
    [Enter(s, "Attach") EXCEPT !.mFD = fd, !.hook = "OnAttach", !.ret = res, !.fd = fd,
                               !.attached = IF fd >= 0 THEN fd ELSE kInvalidFd]

\* ReleaseFD forgetting the descriptor before it calls OnRelease
WS_ReleaseFD_ClearFirst(s) ==
    [Enter(s, "ReleaseFD") EXCEPT !.hook = "OnRelease", !.seen = kInvalidFd,
                                  !.readRequested = FALSE, !.writeRequested = FALSE,
                                  !.retFd = s.mFD, !.mFD = kInvalidFd,
                                  !.released = s.attached, !.attached = kInvalidFd]

\* WatchableSocketBasis::ReleaseFD; OnRelease sees the descriptor and drops
\* the requests made for it
WS_ReleaseFD(s) ==
    [Enter(s, "ReleaseFD") EXCEPT !.hook = "OnRelease", !.seen = s.mFD,
                                  !.readRequested = FALSE, !.writeRequested = FALSE,
                                  !.retFd = s.mFD, !.mFD = kInvalidFd,
                                  !.released = s.attached, !.attached = kInvalidFd]

\* WatchableSocketBasis::Close; closeOk is whether close() of a descriptor
\* succeeds, VerifyOrDie ends the program when it does not
WS_Close(s, closeOk) ==
    LET r == WS_ReleaseFD(s) IN
    [r EXCEPT !.op = "Close", !.closed = r.retFd,
              !.pc = IF r.retFd >= 0 /\ closeOk THEN "ready" ELSE "dead"]

\* WatchableSocketBasis::RequestCallbackOnPendingRead
WS_RequestCallbackOnPendingRead(s, res) ==
    [Enter(s, "RequestCallbackOnPendingRead")
        EXCEPT !.hook = "OnRequestCallbackOnPendingRead", !.ret = res,
               !.readRequested = (res = CHIP_NO_ERROR) \/ s.readRequested]

\* WatchableSocketBasis::RequestCallbackOnPendingWrite
WS_RequestCallbackOnPendingWrite(s, request, res) ==
    [Enter(s, "RequestCallbackOnPendingWrite")
        EXCEPT !.hook = "OnRequestCallbackOnPendingWrite", !.ret = res,
               !.request = request,
               !.writeRequested = (res = CHIP_NO_ERROR) \/ s.writeRequested]

\* WatchableSocketBasis::ClearCallbackOnPendingRead
WS_ClearCallbackOnPendingRead(s, res) ==
    [Enter(s, "ClearCallbackOnPendingRead")
        EXCEPT !.hook = "OnClearCallbackOnPendingRead", !.ret = res,
               !.readRequested = (res # CHIP_NO_ERROR) /\ s.readRequested]

\* WatchableSocketBasis::ClearCallbackOnPendingWrite
WS_ClearCallbackOnPendingWrite(s, res) ==
    [Enter(s, "ClearCallbackOnPendingWrite")
        EXCEPT !.hook = "OnClearCallbackOnPendingWrite", !.ret = res,
               !.writeRequested = (res # CHIP_NO_ERROR) /\ s.writeRequested]

\* WatchableSocketBasis::SetCallback
WS_SetCallback(s, cb) == [Enter(s, "SetCallback") EXCEPT !.mCallback = cb]

\* WatchableSocketBasis::ClearPendingIO
WS_ClearPendingIO(s) == [Enter(s, "ClearPendingIO") EXCEPT !.mPendingIO = {}]

\* WatchableSocketBasis::InvokeCallback, after the event system has stored
\* the events that are ready
WS_InvokeCallback(s, events) ==
    [Enter(s, "InvokeCallback")
        EXCEPT !.mPendingIO = events,
               !.hook = IF s.mCallback # "nullptr" THEN "mCallback" ELSE "none"]

OnlyWs == UNCHANGED <<parserVars, builderVars, mc, sh>>

DoWS_Init ==
    /\ ws.pc = "raw"
    /\ ws' = WS_Init(ws)
    /\ OnlyWs

DoWS_Attach ==
    /\ ws.pc = "ready"
    /\ ~HasFD(ws)
    /\ \E fd \in Fds : \E res \in HookOutcomes : ws' = WS_Attach(ws, fd, res)
    /\ OnlyWs

DoWS_ReleaseFD ==
    /\ ws.pc = "ready"
    /\ ws' = WS_ReleaseFD(ws)
    /\ OnlyWs

DoWS_Close ==
    /\ ws.pc = "ready"
    /\ \E closeOk \in BOOLEAN : ws' = WS_Close(ws, closeOk)
    /\ OnlyWs

DoWS_RequestCallbackOnPendingRead ==
    /\ ws.pc = "ready"
    /\ \E res \in HookOutcomes : ws' = WS_RequestCallbackOnPendingRead(ws, res)
    /\ OnlyWs

DoWS_RequestCallbackOnPendingWrite ==
    /\ ws.pc = "ready"
    /\ \E request \in BOOLEAN : \E res \in HookOutcomes :
            ws' = WS_RequestCallbackOnPendingWrite(ws, request, res)
    /\ OnlyWs

DoWS_ClearCallbackOnPendingRead ==
    /\ ws.pc = "ready"
    /\ \E res \in HookOutcomes : ws' = WS_ClearCallbackOnPendingRead(ws, res)
    /\ OnlyWs

DoWS_ClearCallbackOnPendingWrite ==
    /\ ws.pc = "ready"
    /\ \E res \in HookOutcomes : ws' = WS_ClearCallbackOnPendingWrite(ws, res)
    /\ OnlyWs

DoWS_SetCallback ==
    /\ ws.pc = "ready"
    /\ \E cb \in SocketCallbacks : ws' = WS_SetCallback(ws, cb)
    /\ OnlyWs

DoWS_ClearPendingIO ==
    /\ ws.pc = "ready"
    /\ ws' = WS_ClearPendingIO(ws)
    /\ OnlyWs

\* the event system finds the descriptor ready for some of what was asked
DoWS_InvokeCallback ==
    /\ ws.pc = "ready"
    /\ HasFD(ws)
    /\ \E events \in SUBSET SocketEventFlags :
            /\ events # {}
            /\ "kRead" \in events => ws.readRequested
            /\ "kWrite" \in events => ws.writeRequested
            /\ ws' = WS_InvokeCallback(ws, events)
    /\ OnlyWs

InitSocket ==
    /\ \E fd \in Fds : \E pending \in SUBSET SocketEventFlags : \E cb \in SocketCallbacks :
            ws = WS_Raw(fd, pending, cb)
    /\ mc = McIdle
    /\ sh = ShIdle
    /\ ParserIdle
    /\ BuilderIdle

NextSocket ==
    \/ DoWS_Init
    \/ DoWS_Attach
    \/ DoWS_ReleaseFD
    \/ DoWS_Close
    \/ DoWS_RequestCallbackOnPendingRead
    \/ DoWS_RequestCallbackOnPendingWrite
    \/ DoWS_ClearCallbackOnPendingRead
    \/ DoWS_ClearCallbackOnPendingWrite
    \/ DoWS_SetCallback
    \/ DoWS_ClearPendingIO
    \/ DoWS_InvokeCallback

SpecSocket == InitSocket /\ [][NextSocket]_vars

C18_WriteRequestOnlyWhenTrue ==
    (ws.op = "RequestCallbackOnPendingWrite" /\ ~ws.request) =>
        /\ ws.hook # "OnRequestCallbackOnPendingWrite"
        /\ ~ws.writeRequested

\* C19 as stated: a failed Attach leaves the socket without a descriptor,
\* so that a Close that follows does not close fd.
C19_FailedAttachLeavesNoFD ==
    (ws.op = "Attach" /\ ws.ret # CHIP_NO_ERROR) => ~HasFD(ws)

\* C19: when OnAttach fails the descriptor stays with the socket: GetFD()
\* is fd, HasFD() holds for fd >= 0, and a Close that follows releases and
\* closes fd.
C19_FailedAttachKeepsFD ==
    [][/\ (ws'.op = "Attach" /\ ws'.ret # CHIP_NO_ERROR) =>
            /\ GetFD(ws') = ws'.fd
            /\ HasFD(ws') <=> ws'.fd >= 0
       /\ (ws.op = "Attach" /\ ws.ret # CHIP_NO_ERROR /\ ws'.op = "Close") =>
            /\ ws'.closed = ws.fd
            /\ ~HasFD(ws')]_vars

C19_Witness ==
    /\ ws.op = "Attach"
    /\ ws.ret # CHIP_NO_ERROR
    /\ ws.fd = MaxFd
    /\ GetFD(ws) = MaxFd
    /\ HasFD(ws)

(***************************************************************************)
(* ControllerHandler: the "controller" shell command                       *)
(***************************************************************************)
MaxArgc == 5

CHIP_ERROR_INVALID_ARGUMENT == "CHIP_ERROR_INVALID_ARGUMENT"

\* the builds: CHIP_DEVICE_CONFIG_ENABLE_COMMISSIONER_DISCOVERY and
\* CHIP_DEVICE_CONFIG_ENABLE_BOTH_COMMISSIONER_AND_COMMISSIONEE (the
\* helpers of the second are compiled under the first)
Configs ==
    {[discovery |-> FALSE, both |-> FALSE],
     [discovery |-> TRUE, both |-> FALSE],
     [discovery |-> TRUE, both |-> TRUE]}

Subcommands ==
    {"help", "udc-reset", "udc-print", "discover-commissionable",
     "discover-commissionable-instance", "discover-display",
     "commission-onnetwork", "udc-commission", "bogus"}
ArgTokens == {"7", "x"}

\* what a read past the last argument may yield
BeyondArgv == {"NULL", "garbage"}

ArgVectors(argc) ==
    IF argc = 0 THEN {<<>>}
    ELSE {<<c>> \o rest : c \in Subcommands, rest \in [1..(argc - 1) -> ArgTokens]}

\* strtol(s, &eptr, 10)
Strtol(tok) == IF tok = "7" THEN 7 ELSE 0

\* what one call of the handler did: the argv indices it read, whether it
\* printed the command list, the helper it called and what it returned
Handled(reads, printed, helper, args, ret) ==
    [reads |-> reads, printed |-> printed, helper |-> helper, args |-> args, ret |-> ret]

\* PrintAllCommands
PrintAllCommands(reads) == Handled(reads, TRUE, "none", <<>>, CHIP_NO_ERROR)

\* ControllerHandler(argc, argv); beyond is what argv[i] holds for i >= argc
ControllerHandler(cfg, argc, argv, beyond) ==
    LET Arg(i) == IF i < argc THEN argv[i + 1] ELSE beyond IN
    IF argc = 0 THEN PrintAllCommands({})
    ELSE IF Arg(0) = "help" THEN PrintAllCommands({0})
    ELSE IF cfg.discovery /\ Arg(0) = "udc-reset"
        THEN Handled({0}, FALSE, "ResetUDC", <<>>, CHIP_NO_ERROR)
    ELSE IF cfg.discovery /\ Arg(0) = "udc-print"
        THEN Handled({0}, FALSE, "PrintUDC", <<>>, CHIP_NO_ERROR)
    ELSE IF cfg.both /\ Arg(0) = "discover-commissionable"
        THEN Handled({0}, FALSE, "discover", <<>>, CHIP_NO_ERROR)
    ELSE IF cfg.both /\ Arg(0) = "discover-commissionable-instance"
        THEN Handled({0, 1}, FALSE, "discover", <<Arg(1)>>, CHIP_NO_ERROR)
    ELSE IF cfg.both /\ Arg(0) = "discover-display"
        THEN Handled({0}, FALSE, "display", <<>>, CHIP_NO_ERROR)
    ELSE IF cfg.both /\ Arg(0) = "commission-onnetwork"
        THEN IF argc < 5 THEN PrintAllCommands({0})
             ELSE Handled({0, 1, 2, 3, 4}, FALSE, "pairOnNetwork",
                          <<Strtol(Arg(1)), Strtol(Arg(2)), Strtol(Arg(4))>>,
                          CHIP_NO_ERROR)
    ELSE IF cfg.both /\ Arg(0) = "udc-commission"
        THEN IF argc < 3 THEN PrintAllCommands({0})
             ELSE Handled({0, 1, 2}, FALSE, "pairUDC",
                          <<Strtol(Arg(1)), Strtol(Arg(2))>>, CHIP_NO_ERROR)
    ELSE Handled({0}, FALSE, "none", <<>>, CHIP_ERROR_INVALID_ARGUMENT)

\* the shell at its prompt, in a build cfg
SH_Prompt(cfg) ==
    [pc |-> "prompt", config |-> cfg, argc |-> 0, argv |-> <<>>,
     did |-> PrintAllCommands({})]

DoControllerHandler ==
    /\ sh.pc \in {"prompt", "returned"}
    /\ \E argc \in 0..MaxArgc : \E argv \in ArgVectors(argc) : \E beyond \in BeyondArgv :
            sh' = [sh EXCEPT !.pc = "returned", !.argc = argc, !.argv = argv,
                             !.did = ControllerHandler(sh.config, argc, argv, beyond)]
    /\ UNCHANGED <<parserVars, builderVars, mc, ws>>

InitShell ==
    /\ \E cfg \in Configs : sh = SH_Prompt(cfg)
    /\ mc = McIdle
    /\ ws = WsIdle
    /\ ParserIdle
    /\ BuilderIdle

NextShell == DoControllerHandler

SpecShell == InitShell /\ [][NextShell]_vars

\* the subcommands the build of the shell knows
Recognized(cfg) ==
    {"help"}
        \cup (IF cfg.discovery THEN {"udc-reset", "udc-print"} ELSE {})
        \cup (IF cfg.both
              THEN {"discover-commissionable", "discover-commissionable-instance",
                    "discover-display", "commission-onnetwork", "udc-commission"}
              ELSE {})

\* the arguments a subcommand takes after its name
ArgsTaken(c) ==
    IF c = "discover-commissionable-instance" THEN 1
    ELSE IF c = "commission-onnetwork" THEN 4
    ELSE IF c = "udc-commission" THEN 2
    ELSE 0

\* C20: ControllerHandler reads no argv[i] with i >= argc; a subcommand
\* given fewer arguments than it takes prints the command list and calls
\* nothing; an unrecognized subcommand returns CHIP_ERROR_INVALID_ARGUMENT
\* and calls nothing; argc == 0 or "help" prints the command list and
\* returns success.
C20_ArgvWithinArgc ==
    sh.pc = "returned" =>
        /\ \A i \in sh.did.reads : i < sh.argc
        /\ (/\ sh.argc > 0
            /\ sh.argv[1] \in Recognized(sh.config)
            /\ sh.argc < 1 + ArgsTaken(sh.argv[1]))
                => sh.did.printed /\ sh.did.helper = "none"
        /\ (sh.argc > 0 /\ sh.argv[1] \notin Recognized(sh.config))
                => sh.did.ret = CHIP_ERROR_INVALID_ARGUMENT /\ sh.did.helper = "none"
        /\ (sh.argc = 0 \/ sh.argv[1] = "help")
                => sh.did.printed /\ sh.did.ret = CHIP_NO_ERROR

====
